---- MODULE Spec2Model ----
(***************************************************************************)
(* ppsh: a raw-terminal line editor with directory-entry suggestions.      *)
(* Model of src/src/main.rs: the Readline model, update, update_suggestion,*)
(* render and the ModelVieUpdate::run event loop.                          *)
(*                                                                         *)
(* Strings are sequences of UTF-8 bytes, as Rust's String is: len() counts *)
(* bytes, starts_with compares bytes, the BTreeSet orders by bytes, and    *)
(* push/pop/remove work on whole characters at byte indices.               *)
(***************************************************************************)
EXTENDS Integers, Sequences, FiniteSets, TLC

\* Bound: the largest buffer, in bytes, that the typing action builds.
MaxBuf == 3

\* Position.x is a u16: its values are 0 .. U16 - 1.
U16 == 65536

\* Option<T>: None, or Some(v).
None == <<>>
Some(v) == <<v>>

\* The characters the terminal delivers as Key::Char(c), each as its UTF-8
\* encoding: ' ', 'a', 'b' (one byte each) and U+00E9 (two bytes).
Chars == { <<32>>, <<97>>, <<98>>, <<195, 169>> }

\* '\n', the character of the Enter key.
Newline == <<10>>

\* Key events read from stdin.keys().
Key(k, c) == [key |-> k, c |-> c]
KeyEnter == Key("Char", Newline)
KeyLeft == Key("Left", <<>>)
KeyRight == Key("Right", <<>>)
KeyBackspace == Key("Backspace", <<>>)
KeyUp == Key("Up", <<>>)
KeyCtrlC == Key("Ctrl", <<99>>)

\* File names the directory scan of Readline::default may find.
Names == { <<97>>, <<97, 98>>, <<195, 169, 97>> }

(***************************************************************************)
(* String primitives of the Rust standard library, on byte sequences.      *)
(***************************************************************************)

\* str::starts_with
starts_with(s, p) == Len(p) <= Len(s) /\ SubSeq(s, 1, Len(p)) = p

\* Ord for String: lexicographic order of the bytes.
str_le(a, b) ==
  \/ starts_with(b, a)
  \/ \E i \in 1..Len(a) :
       /\ i <= Len(b)
       /\ SubSeq(a, 1, i - 1) = SubSeq(b, 1, i - 1)
       /\ a[i] < b[i]

\* A UTF-8 continuation byte, 0b10xxxxxx.
is_continuation(b) == b >= 128 /\ b < 192

\* str::is_char_boundary: idx is 0, len, or the index of a byte that starts
\* a character.
is_char_boundary(s, idx) ==
  \/ idx = 0
  \/ idx = Len(s)
  \/ idx > 0 /\ idx < Len(s) /\ ~is_continuation(s[idx + 1])

\* The byte index at which the last character of a non-empty s starts.
last_char_start(s) ==
  CHOOSE k \in 0..(Len(s) - 1) :
    /\ is_char_boundary(s, k)
    /\ \A j \in (k + 1)..(Len(s) - 1) : ~is_char_boundary(s, j)

\* The byte index one past the character that starts at boundary idx < len.
next_char_start(s, idx) ==
  CHOOSE k \in (idx + 1)..Len(s) :
    /\ is_char_boundary(s, k)
    /\ \A j \in (idx + 1)..(k - 1) : ~is_char_boundary(s, j)

\* String::pop: the string without its last character (None when empty).
pop(s) == IF s = <<>> THEN None ELSE Some(SubSeq(s, 1, last_char_start(s)))

\* String::remove(idx) panics when idx is not on a character boundary or
\* there is no character at idx.
remove_panics(s, idx) == idx >= Len(s) \/ ~is_char_boundary(s, idx)

\* String::remove(idx): the string without the character at byte index idx.
remove(s, idx) ==
  SubSeq(s, 1, idx) \o SubSeq(s, next_char_start(s, idx) + 1, Len(s))

\* `n as u16` and wrapping u16 arithmetic: the value modulo 2^16.
as_u16(n) == n % U16

\* A u16 addition or subtraction whose exact result n is out of range.
overflows(n) == n < 0 \/ n >= U16


(***************************************************************************)
(* State.                                                                  *)
(***************************************************************************)
VARIABLES
  model,            \* ModelVieUpdate.model: the Readline
  state,            \* where run() is: "Editing", "Terminated", "Failed", "Panicked"
  overflow_checks,  \* the build panics on u16 overflow (debug) or wraps (release)
  event,            \* the key the last loop iteration took from stdin, if any
  returned,         \* what update returned in the last iteration, if it returned
  spawned,          \* the Command::output() calls of the last iteration
  written,          \* the terminal writes of the last iteration, in order
  typing,           \* the characters typed since the buffer was last empty
  term,             \* the terminal: cursor, saved cursor, end of printed output
  pending,          \* what stdout's line buffer holds, not yet on the terminal
  raw_mode          \* the terminal is in raw mode

vars == <<model, state, overflow_checks, event, returned, spawned, written,
          typing, term, pending, raw_mode>>

\* Position::origin()
origin == [x |-> 0, y |-> 0]

\* Readline::default() over a directory whose entries are the set entries.
default(entries) ==
  [cursor_pos |-> origin, buffer |-> <<>>, dir_entries |-> entries,
   suggestion |-> None]

(***************************************************************************)
(* Readline::update_suggestion.                                            *)
(***************************************************************************)

\* The elements of a BTreeSet<String> in ascending order.
ascending(S) ==
  [i \in 1..Cardinality(S) |->
     CHOOSE e \in S : Cardinality({x \in S : str_le(x, e)}) = i]

\* The range with an excluded lower bound: the entries > start.
range_after(S, start) == ascending({e \in S : ~str_le(e, start)})

\* BTreeSet::range(RangeFrom { start }): the entries >= start, ascending.
range_from(S, start) == ascending({e \in S : str_le(start, e)})

\* Iterator::next(): the first item, if any.
next(it) == IF it = <<>> THEN None ELSE Some(Head(it))

\* .range(buffer..).filter(starts_with(buffer)).next()
lookup(S, buffer) ==
  LET keep(e) == starts_with(e, buffer)
  IN  next(SelectSeq(range_from(S, buffer), keep))

\* update_suggestion that looks the index up on every call.
update_suggestion_always(m) ==
  IF m.buffer = <<>>
    THEN [m EXCEPT !.suggestion = None]
    ELSE [m EXCEPT !.suggestion = lookup(m.dir_entries, m.buffer)]

\* update_suggestion that looks the index up only when no suggestion is
\* present (the starts_with test of a present suggestion left out).
update_suggestion_kept(m) ==
  IF m.buffer = <<>>
    THEN [m EXCEPT !.suggestion = None]
    ELSE IF m.suggestion = None
      THEN [m EXCEPT !.suggestion = lookup(m.dir_entries, m.buffer)]
      ELSE m

update_suggestion(m) ==
  IF m.buffer = <<>>
    THEN [m EXCEPT !.suggestion = None]
    ELSE IF m.suggestion = None \/ ~starts_with(m.suggestion[1], m.buffer)
      THEN [m EXCEPT !.suggestion = lookup(m.dir_entries, m.buffer)]
      ELSE m

(***************************************************************************)
(* update: one definition per match arm.  The result is the model after    *)
(* the call, the returned Option<String>, and whether the call panicked    *)
(* (in which case nothing is returned).                                    *)
(***************************************************************************)
Return(m, r) == [model |-> m, ret |-> r, panicked |-> FALSE]
Panic(m) == [model |-> m, ret |-> None, panicked |-> TRUE]

\* cursor_pos.x += 1 / -= 1: n is the exact result.  An out-of-range result
\* panics under overflow checks and wraps otherwise.
x_panics(n) == overflows(n) /\ overflow_checks
with_x(m, n) == [m EXCEPT !.cursor_pos.x = as_u16(n)]

\* Key::Char('\n')
update_enter(m) ==
  Return([m EXCEPT !.cursor_pos = origin, !.buffer = <<>>], Some(m.buffer))

\* Key::Char(c)
update_char(m, c) ==
  LET pushed == [m EXCEPT !.buffer = @ \o c]
      n == m.cursor_pos.x + 1
  IN  IF x_panics(n) THEN Panic(pushed)
      ELSE Return(update_suggestion(with_x(pushed, n)), None)

\* Key::Left if cursor_pos.x > 0
update_left(m) ==
  LET n == m.cursor_pos.x - 1
  IN  IF x_panics(n) THEN Panic(m) ELSE Return(with_x(m, n), None)

\* Right taking the cursor to the end of the buffer in one step.
update_right_to_end(m) == Return(with_x(m, Len(m.buffer)), None)

\* Key::Right if cursor_pos.x < buffer.len() as u16
update_right(m) ==
  LET n == m.cursor_pos.x + 1
  IN  IF x_panics(n) THEN Panic(m) ELSE Return(with_x(m, n), None)

\* Key::Backspace if cursor_pos.x == buffer.len() as u16
update_backspace_end(m) ==
  LET popped == pop(m.buffer)
      n == m.cursor_pos.x - 1
  IN  IF popped = None THEN Return(m, None)
      ELSE LET shorter == [m EXCEPT !.buffer = popped[1]]
           IN  IF x_panics(n) THEN Panic(shorter)
               ELSE Return(update_suggestion(with_x(shorter, n)), None)

\* Key::Backspace if cursor_pos.x > 0 && !buffer.is_empty()
update_backspace_inner(m) ==
  LET n == m.cursor_pos.x - 1
      moved == with_x(m, n)
  IN  IF x_panics(n) THEN Panic(m)
      ELSE IF remove_panics(m.buffer, moved.cursor_pos.x) THEN Panic(moved)
      ELSE Return(update_suggestion(
                    [moved EXCEPT !.buffer = remove(@, moved.cursor_pos.x)]),
                  None)

\* The match of update: the first arm whose pattern and guard hold.
update(m, e) ==
  IF e = KeyEnter THEN update_enter(m)
  ELSE IF e.key = "Char" THEN update_char(m, e.c)
  ELSE IF e = KeyLeft /\ m.cursor_pos.x > 0 THEN update_left(m)
  ELSE IF e = KeyRight /\ m.cursor_pos.x < as_u16(Len(m.buffer))
    THEN update_right(m)
  ELSE IF e = KeyBackspace /\ m.cursor_pos.x = as_u16(Len(m.buffer))
    THEN update_backspace_end(m)
  ELSE IF e = KeyBackspace /\ m.cursor_pos.x > 0 /\ m.buffer # <<>>
    THEN update_backspace_inner(m)
  ELSE Return(m, None)

(***************************************************************************)
(* Terminal writes.  One record per item written to stdout.                *)
(***************************************************************************)
W(op, text, n) == [op |-> op, text |-> text, n |-> n]
Text(bytes) == W("text", bytes, 0)
Fg(colour) == W(colour, <<>>, 0)
CursorSave == W("Save", <<>>, 0)
CursorRestore == W("Restore", <<>>, 0)
ClearAfterCursor == W("AfterCursor", <<>>, 0)
CursorLeft(n) == W("Left", <<>>, n)
Flush == W("flush", <<>>, 0)
CrLf == <<13, 10>>

(***************************************************************************)
(* Readline::render.  The result is the items written and whether the call *)
(* panicked.                                                               *)
(***************************************************************************)

\* &s[from..] panics when from is past the end or inside a character.
slice_panics(s, from) == from > Len(s) \/ ~is_char_boundary(s, from)
slice_from(s, from) == SubSeq(s, from + 1, Len(s))

\* The length render subtracts cursor_pos.x from, as a u16.
displayed_length(m) ==
  as_u16(IF m.suggestion # None THEN Len(m.suggestion[1]) ELSE Len(m.buffer))

render(m) ==
  LET prompt == << Fg("LightGreen"), Fg("Reset"), Text(<<32>> \o m.buffer) >>
      slice_bad == m.suggestion # None
                   /\ slice_panics(m.suggestion[1], Len(m.buffer))
      tail == IF m.suggestion # None /\ ~slice_bad
                THEN << Fg("Cyan"),
                        Text(slice_from(m.suggestion[1], Len(m.buffer))) >>
                ELSE << >>
      back == displayed_length(m) - m.cursor_pos.x
      cursor_back == as_u16(back)
  IN  IF slice_bad THEN [written |-> prompt, panicked |-> TRUE]
      ELSE IF x_panics(back)
        THEN [written |-> prompt \o tail, panicked |-> TRUE]
      ELSE [written |-> prompt \o tail
                        \o (IF cursor_back > 0 THEN << CursorLeft(cursor_back) >>
                            ELSE << >>),
            panicked |-> FALSE]

(***************************************************************************)
(* The submitted line: split_whitespace, Command::output, from_utf8.       *)
(***************************************************************************)

\* char::is_whitespace, for the one-byte characters.
is_whitespace(b) == b \in {9, 10, 11, 12, 13, 32}

RECURSIVE split_from(_, _, _, _)
split_from(s, i, word, words) ==
  LET closed == IF word = <<>> THEN words ELSE Append(words, word)
  IN  IF i > Len(s) THEN closed
      ELSE IF is_whitespace(s[i]) THEN split_from(s, i + 1, <<>>, closed)
      ELSE split_from(s, i + 1, Append(word, s[i]), words)

\* str::split_whitespace().collect::<Vec<_>>()
split_whitespace(s) == split_from(s, 1, <<>>, <<>>)

\* std::str::from_utf8(bytes).is_ok(), for encodings of up to four bytes
\* (the overlong and surrogate exclusions of three- and four-byte forms are
\* not modelled).
RECURSIVE utf8_ok(_, _)
utf8_ok(bs, i) ==
  LET need == IF bs[i] < 128 THEN 0
              ELSE IF bs[i] >= 194 /\ bs[i] < 224 THEN 1
              ELSE IF bs[i] >= 224 /\ bs[i] < 240 THEN 2
              ELSE IF bs[i] >= 240 /\ bs[i] < 245 THEN 3
              ELSE 4
  IN  IF i > Len(bs) THEN TRUE
      ELSE /\ need < 4
           /\ i + need <= Len(bs)
           /\ \A j \in (i + 1)..(i + need) : is_continuation(bs[j])
           /\ utf8_ok(bs, i + need + 1)

\* from_utf8 taken to accept any bytes (as a lossy conversion would).
from_utf8_any(bs) == TRUE

from_utf8_ok(bs) == utf8_ok(bs, 1)

\* str::replace('\n', "\r\n")
RECURSIVE replace_newlines(_)
replace_newlines(s) ==
  IF s = <<>> THEN <<>>
  ELSE (IF Head(s) = 10 THEN CrLf ELSE << Head(s) >>)
       \o replace_newlines(Tail(s))

\* The results Command::output() can give: Err, or Ok(Output) with the
\* captured stdout and stderr: nothing, "h\n", or a byte that is no UTF-8.
Ok(stdout, stderr) == [ok |-> TRUE, stdout |-> stdout, stderr |-> stderr]
Err == [ok |-> FALSE, stdout |-> <<>>, stderr |-> <<>>]
Outputs ==
  { Err, Ok(<<>>, <<>>), Ok(<<104, 10>>, <<>>), Ok(<<>>, <<104, 10>>),
    Ok(<<104, 10>>, <<104, 10>>), Ok(<<255>>, <<>>), Ok(<<104, 10>>, <<255>>) }

\* Command::new(command).args(&input_token[1..]) with every token passed
\* as an argument, the command itself included.
command_calls_all_args(input_token, output) ==
  IF input_token = <<>> THEN << >>
  ELSE << [command |-> Head(input_token), args |-> input_token,
           output |-> output] >>

\* input_token.get(0).map(|command| Command::new(command)
\*     .args(&input_token[1..]).output()): the calls made; output is what
\* Command::output() gives when it is called.
command_calls(input_token, output) ==
  IF input_token = <<>> THEN << >>
  ELSE << [command |-> Head(input_token), args |-> Tail(input_token),
           output |-> output] >>

\* The fallback echoing the command token in place of the line.
fallback_echo_command(input) ==
  << Text(CrLf \o (IF split_whitespace(input) = <<>> THEN input
                   ELSE Head(split_whitespace(input))) \o CrLf),
     CursorSave >>

\* The fallback echo without the cursor::Save after the line.
fallback_echo_no_save(input) == << Text(CrLf \o input \o CrLf) >>

\* write!(stdout, "\r\n{}\r\n{}", input, cursor::Save)
fallback_echo(input) == << Text(CrLf \o input \o CrLf), CursorSave >>

\* The body of `if let Some(input) = update(..)`: the items written, the
\* Command::output() calls made, and whether an unwrap panicked.
dispatch(input, output) ==
  LET input_token == split_whitespace(input)
      calls == command_calls(input_token, output)
      out == IF output.stdout = <<>> THEN << >>
             ELSE << Text(CrLf \o replace_newlines(output.stdout)) >>
      errors == IF output.stderr = <<>> THEN << >>
                ELSE << Text(CrLf), Fg("LightRed"),
                        Text(replace_newlines(output.stderr)), Fg("Reset") >>
  IN  IF calls # << >> /\ output.ok
        THEN IF output.stdout # <<>> /\ ~from_utf8_ok(output.stdout)
               THEN [written |-> << >>, spawned |-> calls, panicked |-> TRUE]
             ELSE IF output.stderr # <<>> /\ ~from_utf8_ok(output.stderr)
               THEN [written |-> out, spawned |-> calls, panicked |-> TRUE]
             ELSE [written |-> out \o errors \o << Text(CrLf), CursorSave >>,
                   spawned |-> calls, panicked |-> FALSE]
        ELSE [written |-> fallback_echo(input),
              spawned |-> calls, panicked |-> FALSE]

\* The else branch: Restore, clear::AfterCursor, Save.
redraw == << CursorRestore, ClearAfterCursor, CursorSave >>

(***************************************************************************)
(* The terminal the escape sequences act on.  A position is a row and a    *)
(* column; out_end is the position just after the last command output or   *)
(* echoed line printed, so every cell before it may hold printed output.   *)
(* Line wrapping and scrolling are not modelled.                           *)
(***************************************************************************)
Pos(row, col) == [row |-> row, col |-> col]
before(p, q) == p.row < q.row \/ (p.row = q.row /\ p.col < q.col)

\* One byte of text at the cursor: '\r' and '\n' move it, a continuation
\* byte belongs to the cell already drawn, any other byte draws a cell.
\* Drawing over a cell before out_end destroys printed output.
term_byte(t, b) ==
  IF b = 13 THEN [t EXCEPT !.cur.col = 0]
  ELSE IF b = 10 THEN [t EXCEPT !.cur.row = @ + 1]
  ELSE IF is_continuation(b) THEN t
  ELSE [t EXCEPT !.cur.col = @ + 1,
                 !.erased = @ \/ before(t.cur, t.out_end)]

RECURSIVE term_bytes(_, _)
term_bytes(t, bytes) ==
  IF bytes = <<>> THEN t ELSE term_bytes(term_byte(t, Head(bytes)), Tail(bytes))

\* cursor::Save, cursor::Restore, clear::AfterCursor (erases from the cursor
\* to the end of the screen), cursor::Left(n) (stops at column 0); colours
\* and flush leave the terminal as it is.
term_control(t, w) ==
  IF w.op = "Save" THEN [t EXCEPT !.saved = t.cur]
  ELSE IF w.op = "Restore" THEN [t EXCEPT !.cur = t.saved]
  ELSE IF w.op = "AfterCursor"
    THEN [t EXCEPT !.erased = @ \/ before(t.cur, t.out_end)]
  ELSE IF w.op = "Left"
    THEN [t EXCEPT !.cur.col = IF @ > w.n THEN @ - w.n ELSE 0]
  ELSE t

\* The items ws on the terminal, in order; the first n_output of them are
\* what the submit branch prints, and move out_end to where they end.
RECURSIVE term_items(_, _, _)
term_items(t, ws, n_output) ==
  IF ws = <<>> THEN t
  ELSE LET w == Head(ws)
           drawn == IF w.op = "text" THEN term_bytes(t, w.text)
                    ELSE term_control(t, w)
           done == IF n_output > 0 THEN [drawn EXCEPT !.out_end = drawn.cur]
                   ELSE drawn
       IN  term_items(done, Tail(ws),
                      IF n_output > 0 THEN n_output - 1 ELSE 0)

\* The terminal after one iteration's items: moved tells whether the saved
\* cursor changed, and rows are then counted from the saved cursor's row.
term_after(t, ws, n_output) ==
  LET u == term_items(t, ws, n_output)
  IN  [cur |-> Pos(u.cur.row - u.saved.row, u.cur.col),
       saved |-> Pos(0, u.saved.col),
       out_end |-> Pos(u.out_end.row - u.saved.row, u.out_end.col),
       erased |-> u.erased,
       moved |-> u.saved # t.saved]

(***************************************************************************)
(* Stdout's LineWriter: a write holding '\n' sends everything up to the    *)
(* last '\n' to the terminal and keeps the rest; flush() sends everything. *)
(***************************************************************************)
has_newline(bytes) == \E i \in 1..Len(bytes) : bytes[i] = 10
after_last_newline(bytes) ==
  LET last == CHOOSE i \in 1..Len(bytes) :
                bytes[i] = 10 /\ \A j \in (i + 1)..Len(bytes) : bytes[j] # 10
  IN  SubSeq(bytes, last + 1, Len(bytes))

RECURSIVE buffered(_, _)
buffered(p, ws) ==
  IF ws = <<>> THEN p
  ELSE LET w == Head(ws)
           kept == IF w.op = "flush" THEN << >>
                   ELSE IF w.op = "text" /\ has_newline(w.text)
                     THEN IF after_last_newline(w.text) = <<>> THEN << >>
                          ELSE << Text(after_last_newline(w.text)) >>
                   ELSE Append(p, w)
       IN  buffered(kept, Tail(ws))

(***************************************************************************)
(* ModelVieUpdate::run.                                                    *)
(***************************************************************************)

\* An iteration that ends without its stdout.flush().
not_flushed(ws) == ws

\* stdout.flush()? at the end of the loop body.
flushed(ws) == ws \o << Flush >>

\* One iteration of `for event in stdin.keys()` on key e: the model, the
\* loop state, update's return value (if it returned), the commands run,
\* the items written and how many of them the submit branch printed.  A
\* panic leaves the loop for good.
iteration(m, e, output) ==
  LET u == update(m, e)
      first == IF u.ret # None THEN dispatch(u.ret[1], output)
               ELSE [written |-> redraw, spawned |-> << >>, panicked |-> FALSE]
      n == IF u.ret # None THEN Len(first.written) ELSE 0
      r == render(u.model)
  IN  IF e = KeyCtrlC
        THEN [model |-> m, state |-> "Terminated", returned |-> << >>,
              spawned |-> << >>, written |-> << Text(CrLf) >>, n_output |-> 0]
      ELSE IF u.panicked
        THEN [model |-> u.model, state |-> "Panicked", returned |-> << >>,
              spawned |-> << >>, written |-> << >>, n_output |-> 0]
      ELSE IF first.panicked
        THEN [model |-> u.model, state |-> "Panicked", returned |-> << u.ret >>,
              spawned |-> first.spawned, written |-> first.written,
              n_output |-> n]
      ELSE IF r.panicked
        THEN [model |-> u.model, state |-> "Panicked", returned |-> << u.ret >>,
              spawned |-> first.spawned,
              written |-> first.written \o r.written, n_output |-> n]
      ELSE [model |-> u.model, state |-> "Editing", returned |-> << u.ret >>,
            spawned |-> first.spawned,
            written |-> flushed(first.written \o r.written), n_output |-> n]

\* The RawTerminal returned by into_raw_mode() lives until run() is left and
\* restores the terminal when dropped, on return and on unwinding alike.
\* A left loop whose terminal is restored only on the way out through Ok(()).
raw_after_ok_only(st) == st \notin {"Terminated"}

\* Raw mode after an iteration that leaves run() in state st.
raw_after(st) == st = "Editing"

\* The characters typed since the buffer was last empty, as long as nothing
\* but characters was typed since then.
typed(t, e, m) ==
  IF e.key = "Char" /\ e # KeyEnter /\ t.pure
    THEN [pure |-> TRUE, chars |-> Append(t.chars, e.c)]
    ELSE [pure |-> m.buffer = <<>>, chars |-> << >>]

\* The output passed for keys that run no command.
NoOutput == Err

Step(e, output) ==
  /\ state = "Editing"
  /\ \E it \in {iteration(model, e, output)} :
         /\ model' = it.model
         /\ state' = it.state
         /\ returned' = it.returned
         /\ spawned' = it.spawned
         /\ written' = it.written
         /\ typing' = typed(typing, e, it.model)
         /\ term' = term_after(term, it.written, it.n_output)
         /\ pending' = buffered(pending, it.written)
         /\ raw_mode' = raw_after(it.state)
  /\ event' = Some(e)
  /\ UNCHANGED overflow_checks

\* run() is left without a key having been handled: to is "Terminated" when
\* stdin.keys() ends (Ok(())), "Failed" when `?` returns an io::Error.
Leave(to) ==
  /\ state = "Editing"
  /\ state' = to
  /\ raw_mode' = raw_after(to)
  /\ event' = None
  /\ returned' = << >>
  /\ spawned' = << >>
  /\ written' = << >>
  /\ term' = [term EXCEPT !.moved = FALSE]
  /\ UNCHANGED <<model, overflow_checks, typing, pending>>

\* The terminal before the first write.
blank == [cur |-> Pos(0, 0), saved |-> Pos(0, 0), out_end |-> Pos(0, 0),
          erased |-> FALSE, moved |-> FALSE]

\* run() up to the loop: raw mode, cursor::Save, the first render, flush;
\* or into_raw_mode()? fails and run() returns at once.
Init ==
  /\ overflow_checks \in BOOLEAN
  /\ \E entries \in SUBSET Names : model = default(entries)
  /\ state \in {"Editing", "Failed"}
  /\ raw_mode = (state = "Editing")
  /\ event = None
  /\ returned = << >>
  /\ spawned = << >>
  /\ written = IF state = "Editing"
                 THEN flushed(<< CursorSave >> \o render(model).written)
                 ELSE << >>
  /\ typing = [pure |-> TRUE, chars |-> << >>]
  /\ term = [term_after(blank, written, 0) EXCEPT !.moved = FALSE]
  /\ pending = buffered(<< >>, written)

TypeChar ==
  \E c \in Chars :
    /\ Len(model.buffer) + Len(c) <= MaxBuf
    /\ Step(Key("Char", c), NoOutput)

PressEnter == \E output \in Outputs : Step(KeyEnter, output)
PressLeft == Step(KeyLeft, NoOutput)
PressRight == Step(KeyRight, NoOutput)
PressBackspace == Step(KeyBackspace, NoOutput)
PressOther == Step(KeyUp, NoOutput)
PressCtrlC == Step(KeyCtrlC, NoOutput)

\* stdin.keys() yields no further event: the loop ends and run() returns.
EndOfStream == Leave("Terminated")

\* A read of the next key or a write to the terminal returns an error,
\* which `?` propagates out of run().  (The part of the iteration done
\* before a failing write is not represented.)
TerminalFails == Leave("Failed")

Next ==
  \/ TypeChar
  \/ PressEnter
  \/ PressLeft
  \/ PressRight
  \/ PressBackspace
  \/ PressOther
  \/ PressCtrlC
  \/ EndOfStream
  \/ TerminalFails

Spec == Init /\ [][Next]_vars

TypeOK ==
  /\ state \in {"Editing", "Terminated", "Failed", "Panicked"}
  /\ raw_mode \in BOOLEAN
  /\ model.cursor_pos.x \in 0..(U16 - 1)
  /\ Len(model.buffer) <= MaxBuf
  /\ model.dir_entries \subseteq Names
  /\ Len(returned) <= 1
  /\ Len(spawned) <= 1

(***************************************************************************)
(* Vocabulary of the properties.                                           *)
(***************************************************************************)

\* The entries of the index that start with b, and the least of a set of
\* strings in byte order.
matching(S, b) == {e \in S : starts_with(e, b)}
least(T) == CHOOSE e \in T : \A x \in T : str_le(e, x)

\* The concatenation of a sequence of characters.
RECURSIVE flatten(_)
flatten(cs) == IF cs = <<>> THEN <<>> ELSE Head(cs) \o flatten(Tail(cs))

\* The maximal runs of non-whitespace bytes of s, in order.
word_starts(s) ==
  {i \in 1..Len(s) : ~is_whitespace(s[i]) /\ (i = 1 \/ is_whitespace(s[i - 1]))}
word_end(s, i) ==
  CHOOSE j \in i..Len(s) :
    /\ \A k \in i..j : ~is_whitespace(s[k])
    /\ j = Len(s) \/ is_whitespace(s[j + 1])
words(s) ==
  [k \in 1..Cardinality(word_starts(s)) |->
     LET i == CHOOSE i \in word_starts(s) :
                Cardinality({j \in word_starts(s) : j <= i}) = k
     IN  SubSeq(s, i, word_end(s, i))]

(***************************************************************************)
(* Properties.                                                             *)
(***************************************************************************)

\* C1: in every reached state 0 <= cursor.x <= len(buffer).  Stated with
\* len(buffer) in bytes, the larger of the two readings of len.
C1_CursorBound ==
  model.cursor_pos.x >= 0 /\ model.cursor_pos.x <= Len(model.buffer)

\* C2: whenever the buffer is non-empty and some index entry starts with
\* it, the active suggestion is the least such entry.
C2_SuggestionMinimal ==
  (model.buffer # <<>> /\ matching(model.dir_entries, model.buffer) # {})
    => model.suggestion = Some(least(matching(model.dir_entries, model.buffer)))

\* C3: the active suggestion is none, or an index entry that starts with
\* the current buffer (and so is at least as long); a suggestion that does
\* not start with the changed buffer is never left in place.
C3_SuggestionValid ==
  \/ model.suggestion = None
  \/ /\ model.suggestion[1] \in model.dir_entries
     /\ starts_with(model.suggestion[1], model.buffer)
     /\ Len(model.suggestion[1]) >= Len(model.buffer)

\* C3 witness: with "a" and "ab" in the index, typing a then b: the
\* suggestion "a" went stale with the b and was replaced by "ab".
C3_StaleReplaced ==
  /\ {<<97>>, <<97, 98>>} \subseteq model.dir_entries
  /\ typing.pure /\ typing.chars = << <<97>>, <<98>> >>
  /\ model.suggestion = Some(<<97, 98>>)

\* C4: whenever the buffer is empty there is no active suggestion.
C4_EmptyNoSuggestion == model.buffer = <<>> => model.suggestion = None

\* C5: Enter returns Some(the buffer before the event) and leaves the buffer
\* empty with cursor.x = 0; every other key handed to update returns None.
C5_SubmitTransition ==
  [][ /\ event' = Some(KeyEnter) =>
           /\ returned' = << Some(model.buffer) >>
           /\ model'.buffer = <<>>
           /\ model'.cursor_pos.x = 0
      /\ event' \notin {Some(KeyEnter), Some(KeyCtrlC)} =>
           returned' = << None >> ]_vars

\* C6: after a run of typed characters that began with the buffer empty,
\* the buffer is the characters in order and cursor.x is their number.
C6_TypingBuildsBuffer ==
  (typing.pure /\ typing.chars # <<>>) =>
    /\ model.buffer = flatten(typing.chars)
    /\ model.cursor_pos.x = Len(typing.chars)

\* C7: while an index entry e is typed from an empty buffer, the suggestion
\* is e whenever e is the only entry starting with what was typed, and is e
\* once all of e was typed.
C7_RoundTrip ==
  \A e \in model.dir_entries :
    (typing.pure /\ typing.chars # <<>>
       /\ starts_with(e, flatten(typing.chars))) =>
      /\ matching(model.dir_entries, flatten(typing.chars)) = {e}
           => model.suggestion = Some(e)
      /\ flatten(typing.chars) = e => model.suggestion = Some(e)

C9_Fallback ==
  [][ (event' = Some(KeyEnter) /\ spawned' # << >> /\ ~spawned'[1].output.ok) =>
        /\ Len(written') >= 2
        /\ written'[1] = Text(CrLf \o model.buffer \o CrLf)
        /\ written'[2] = CursorSave
        /\ state' = "Editing"
        /\ model'.buffer = <<>>
        /\ model'.cursor_pos.x = 0 ]_vars

\* C9 witness: the line "a b" was submitted and its command did not run.
C9_FallbackEchoed ==
  /\ event = Some(KeyEnter)
  /\ returned = << Some(<<97, 32, 98>>) >>
  /\ spawned # << >> /\ ~spawned[1].output.ok
  /\ state = "Editing"

\* C10: Ctrl-C writes a newline and terminates the loop without calling
\* update or running a command; every other key leaves the loop in Editing.
C10_RunLoop ==
  [][ /\ event' = Some(KeyCtrlC) =>
           /\ state' = "Terminated"
           /\ written' = << Text(CrLf) >>
           /\ returned' = << >>
           /\ spawned' = << >>
      /\ event' # Some(KeyCtrlC) => state' = "Editing" ]_vars

(***************************************************************************)
(* Vocabulary of the properties of rendering, exits and editing.           *)
(***************************************************************************)

\* The characters of s: each starts at a byte that is no continuation byte.
char_starts(s) == {i \in 1..Len(s) : ~is_continuation(s[i])}
char_count(s) == Cardinality(char_starts(s))
chars_of(s) ==
  [k \in 1..char_count(s) |->
     LET i == CHOOSE i \in char_starts(s) :
                Cardinality({j \in char_starts(s) : j <= i}) = k
         after == {j \in char_starts(s) : j > i}
         stop == IF after = {} THEN Len(s)
                 ELSE (CHOOSE j \in after : \A h \in after : j <= h) - 1
     IN  SubSeq(s, i, stop)]

\* s without its k-th character.
without_char(s, k) ==
  IF k < 1 \/ k > char_count(s) THEN s
  ELSE flatten(SubSeq(chars_of(s), 1, k - 1)
               \o SubSeq(chars_of(s), k + 1, char_count(s)))

\* Bytes that occur in no UTF-8 text.
never_utf8(bs) == \E i \in 1..Len(bs) : bs[i] >= 245 \/ bs[i] \in {192, 193}

\* The least index entry starting with b, if there is one.
least_match(S, b) ==
  IF matching(S, b) = {} THEN None ELSE Some(least(matching(S, b)))

\* The keys that edit the buffer.
EditKeys == {Some(KeyBackspace)} \cup {Some(Key("Char", c)) : c \in Chars}

(***************************************************************************)
(* Properties of rendering, exits and editing.                             *)
(***************************************************************************)

\* C11: no printed output is ever erased or drawn over; while the loop is
\* editing the saved cursor is not before the end of the printed output, a
\* submit leaves it exactly there, and an iteration without a submit does
\* not move it.
C11_AnchorProtects ==
  /\ ~term.erased
  /\ state = "Editing" =>
       /\ ~before(term.saved, term.out_end)
       /\ (returned # << >> /\ returned[1] # None) =>
            (term.moved /\ term.saved = term.out_end)
       /\ returned = << None >> => ~term.moved

\* C11 witness: a redraw on a key pressed after a submit (only a submit
\* leaves a suggestion over an empty buffer): the anchor stayed and nothing
\* printed was erased.
C11_RedrawAfterSubmit ==
  /\ event = Some(KeyUp)
  /\ model.buffer = <<>> /\ model.suggestion # None
  /\ ~term.moved /\ ~term.erased
  /\ written[1] = CursorRestore /\ written[2] = ClearAfterCursor

\* C12: whenever the loop waits for a key or has ended its loop, nothing
\* written is left in stdout's buffer.
C12_Flushed == state \in {"Editing", "Terminated"} => pending = << >>

\* C12 witness: the interrupt, whose newline is written without a flush().
C12_InterruptWritten ==
  /\ state = "Terminated" /\ event = Some(KeyCtrlC)
  /\ written = << Text(CrLf) >>
  /\ pending = << >>

C14_CursorBack == displayed_length(model) >= model.cursor_pos.x

\* C15: a submit whose command ran and captured bytes that are no UTF-8
\* ends the loop by a panic: no fallback echo, no anchor, no redraw, and no
\* step is taken from a panicked loop.
C15_NonUtf8Fatal ==
  [][ /\ state # "Panicked"
      /\ (/\ event' = Some(KeyEnter)
          /\ spawned' # << >>
          /\ spawned'[1].output.ok
          /\ \/ never_utf8(spawned'[1].output.stdout)
             \/ never_utf8(spawned'[1].output.stderr)) =>
           /\ state' = "Panicked"
           /\ \A i \in 1..Len(written') :
                /\ written'[i].op \notin {"Save", "flush", "LightGreen"}
                /\ written'[i] # Text(CrLf \o model.buffer \o CrLf)
                /\ ~never_utf8(written'[i].text) ]_vars

\* C15 witness: stdout was printed, then stderr was no UTF-8.
C15_AbortedOnStderr ==
  /\ state = "Panicked"
  /\ spawned # << >> /\ spawned[1].output.stderr = <<255>>
  /\ written # << >>

\* C16: for a non-empty buffer b, the first entry >= b starts with b iff
\* some entry starts with b, and taking only that entry gives what the
\* filtered scan gives: the least entry starting with b, or none.
C16_FirstEntryExhaustive ==
  model.buffer # <<>> =>
    LET first == next(range_from(model.dir_entries, model.buffer))
        first_only == IF first # None /\ starts_with(first[1], model.buffer)
                        THEN first ELSE None
    IN  /\ first_only # None <=> matching(model.dir_entries, model.buffer) # {}
        /\ first_only = lookup(model.dir_entries, model.buffer)
        /\ first_only = least_match(model.dir_entries, model.buffer)

\* C16 witness: the first entry >= "b" exists and does not start with "b".
C16_FirstNotPrefix ==
  /\ model.buffer = <<98>>
  /\ next(range_from(model.dir_entries, model.buffer)) = Some(<<195, 169, 97>>)

\* C17: an edit that changes the buffer and leaves it non-empty keeps a
\* suggestion that starts with the new buffer, and otherwise sets the
\* suggestion to the least entry starting with the new buffer, or none.
C17_Retention ==
  [][ (/\ event' \in EditKeys
       /\ model'.buffer # model.buffer
       /\ model'.buffer # <<>>) =>
        IF model.suggestion # None
           /\ starts_with(model.suggestion[1], model'.buffer)
          THEN model'.suggestion = model.suggestion
          ELSE model'.suggestion
                 = least_match(model.dir_entries, model'.buffer) ]_vars

\* C17 witness: a, b, Backspace over an index with "a" and "ab": the
\* suggestion "ab" is kept for the buffer "a".
C17_KeptOnBackspace ==
  /\ event = Some(KeyBackspace)
  /\ {<<97>>, <<97, 98>>} \subseteq model.dir_entries
  /\ model.buffer = <<97>>
  /\ model.suggestion = Some(<<97, 98>>)

\* C18: with 0 < cursor.x < len(buffer), Backspace returns, having removed
\* the character before the cursor and decremented cursor.x; with
\* cursor.x = 0 it changes nothing; a typed character is appended and
\* advances cursor.x.  len(buffer) is buffer.len(), as update tests it.
C18_InteriorEdits ==
  [][ /\ (/\ event' = Some(KeyBackspace)
          /\ model.cursor_pos.x > 0
          /\ model.cursor_pos.x < Len(model.buffer)) =>
            /\ returned' = << None >>
            /\ model'.buffer = without_char(model.buffer, model.cursor_pos.x)
            /\ model'.cursor_pos.x = model.cursor_pos.x - 1
      /\ (event' = Some(KeyBackspace) /\ model.cursor_pos.x = 0) =>
            model' = model
      /\ (event' \in EditKeys /\ event' # Some(KeyBackspace)) =>
            /\ model'.buffer = model.buffer \o event'[1].c
            /\ model'.cursor_pos.x = model.cursor_pos.x + 1 ]_vars

\* C19: Left and Right change cursor.x only, by one, and only when
\* cursor.x > 0, respectively cursor.x < len(buffer) (buffer.len(), as
\* update tests it); a key that is neither a character, Left, Right nor
\* Backspace leaves the model as it is; no step changes the index.
C19_Frame ==
  [][ /\ model'.dir_entries = model.dir_entries
      /\ event' = Some(KeyLeft) =>
           model' = [model EXCEPT !.cursor_pos.x =
                       IF @ > 0 THEN @ - 1 ELSE @]
      /\ event' = Some(KeyRight) =>
           model' = [model EXCEPT !.cursor_pos.x =
                       IF @ < Len(model.buffer) THEN @ + 1 ELSE @]
      /\ event' \in {Some(KeyUp), Some(KeyCtrlC)} => model' = model ]_vars

\* C19 witness: Right moved the cursor from 0 to 1 in a two-byte buffer
\* that has a suggestion.
C19_RightMoved ==
  /\ event = Some(KeyRight)
  /\ model.cursor_pos.x = 1 /\ Len(model.buffer) = 2
  /\ model.suggestion # None

\* C20: Right never takes the cursor past the number of characters in the
\* buffer, and Backspace never aborts.
C20_CharByte ==
  [][ /\ (event' = Some(KeyRight)
          /\ model'.cursor_pos.x > model.cursor_pos.x) =>
            model'.cursor_pos.x <= char_count(model'.buffer)
      /\ event' = Some(KeyBackspace) => returned' = << None >> ]_vars

====
